---- MODULE Spec2Model ----
(***************************************************************************)
(* Model of the weather ETL pipeline of src/data_processing.py             *)
(* (WeatherDataProcess): the flattening of a validated batch into the      *)
(* location / current_temp / forecast relations, the derivation of merged  *)
(* and stats (_stats_cal), the five reconciliations (_update_...) against  *)
(* the previously persisted CSV files, and the saving of the five files.   *)
(*                                                                         *)
(* Relations are sequences of rows (records).  A location is identified in *)
(* the code by the triple (name, region, country), always used together;   *)
(* the model carries the triple in the one column `name`, an integer whose *)
(* order stands for the lexicographic order of the triple.  Of the update  *)
(* columns that are resolved by the very same coalesce expression, the     *)
(* model keeps one representative per relation.  Datetimes are ticks       *)
(* (TicksPerDay ticks a day), dates are day numbers, temperatures integers.*)
(***************************************************************************)
EXTENDS Integers, Sequences, FiniteSets, TLC

VARIABLES files, prev, batch, new, out, pc, seen, runs, unreadable, writer

vars == <<files, prev, batch, new, out, pc, seen, runs, unreadable, writer>>

-----------------------------------------------------------------------------
(* Bounds of the model *)

\* number of input records processed, over all the runs of a behaviour
MaxRecords == 3
\* resolution of the time of day of a datetime
TicksPerDay == 2

-----------------------------------------------------------------------------
(* Values *)

\* the null of a polars column; every real value of the model differs from it
Null == -999

MS_PER_DAY == 86400000

\* a datetime of day d at tick t
Dt(d, t) == d * TicksPerDay + t

\* pl.col(..).dt.date(): truncation of a datetime to its date
DtDate(x) == IF x = Null THEN Null ELSE x \div TicksPerDay

\* pl.coalesce([new, old])
Coalesce(a, b) == IF a # Null THEN a ELSE b

\* a - b of two nullable numeric columns
Minus(a, b) == IF a = Null \/ b = Null THEN Null ELSE a - b

\* date - date is a duration in milliseconds
DateSub(a, b) == IF a = Null \/ b = Null THEN Null ELSE (a - b) * MS_PER_DAY

Range(s) == {s[i] : i \in 1..Len(s)}

\* the sequence of F(s[i]), as a tuple
Map(s, F(_)) == [i \in 1..Len(s) |-> F(s[i])] \o <<>>

RECURSIVE Concat(_)
Concat(ss) == IF ss = <<>> THEN <<>> ELSE Head(ss) \o Concat(Tail(ss))

Min2(a, b) == IF a <= b THEN a ELSE b
Max2(a, b) == IF a >= b THEN a ELSE b

\* the second column alone, unless it is null (a fault)
MinHorizontal_SecondOnly(a, b) == IF b = Null THEN a ELSE b

\* pl.min_horizontal / pl.max_horizontal: nulls are ignored
MinHorizontal(a, b) ==
    IF a = Null THEN b ELSE IF b = Null THEN a ELSE Min2(a, b)
MaxHorizontal(a, b) ==
    IF a = Null THEN b ELSE IF b = Null THEN a ELSE Max2(a, b)

SetMin(S) == CHOOSE x \in S : \A y \in S : x <= y
SetMax(S) == CHOOSE x \in S : \A y \in S : x >= y

RECURSIVE SeqSum(_)
SeqSum(s) == IF s = <<>> THEN 0 ELSE Head(s) + SeqSum(Tail(s))

\* mean().round(2), in hundredths (values of the model are non-negative)
MeanRound2(s) == (200 * SeqSum(s) + Len(s)) \div (2 * Len(s))

-----------------------------------------------------------------------------
(* Business keys *)

LocationKey(r) == <<r.name>>
CurrentKey(r)  == <<r.name, r.created_date_local>>
ForecastKey(r) == <<r.name, r.created_date_local, r.date>>
MergedKey(r)   == <<r.name, r.created_date_local, r.forecast_date>>
StatsKey(r)    == <<r.name>>

\* the columns _stats_cal joins forecast_df (left) and current_temp_df on
ForecastJoinKey(f) == <<f.name, f.created_date_local>>
CurrentJoinKey(c)  == <<c.name, DtDate(c.last_updated)>>

\* the key of a row, by the name of the relation or of the join side
RelKey(rel, row) ==
    CASE rel = "location"      -> LocationKey(row)
      [] rel = "current_temp"  -> CurrentKey(row)
      [] rel = "forecast_temp" -> ForecastKey(row)
      [] rel = "merged"        -> MergedKey(row)
      [] rel = "stats"         -> StatsKey(row)
      [] rel = "forecast_df"   -> ForecastJoinKey(row)
      [] rel = "current_df"    -> CurrentJoinKey(row)

-----------------------------------------------------------------------------
(* Ordering and sorting *)

\* lexicographic order of two key tuples of equal length; Null sorts first
RECURSIVE KeyLess(_, _)
KeyLess(a, b) ==
    IF a = <<>> THEN FALSE
    ELSE IF Head(a) # Head(b) THEN Head(a) < Head(b)
    ELSE KeyLess(Tail(a), Tail(b))

KeyLeq(a, b) == a = b \/ KeyLess(a, b)

\* insertion of the pair p = <<key, row>> into the sorted sequence of pairs s,
\* behind the pairs of equal key
RECURSIVE InsertSorted(_, _)
InsertSorted(p, s) ==
    IF s = <<>> THEN <<p>>
    ELSE IF KeyLess(p[1], Head(s)[1]) THEN <<p>> \o s
    ELSE <<Head(s)>> \o InsertSorted(p, Tail(s))

RECURSIVE SortPairs(_)
SortPairs(s) ==
    IF s = <<>> THEN <<>>
    ELSE InsertSorted(s[Len(s)], SortPairs(SubSeq(s, 1, Len(s) - 1)))

\* DataFrame.sort(key columns): ascending, nulls first
Sort(s, rel) ==
    Map(SortPairs(Map(s, LAMBDA r : <<RelKey(rel, r), r>>)), LAMBDA p : p[2])

IsSorted(s, rel) ==
    \A i \in 1..(Len(s) - 1) : KeyLeq(RelKey(rel, s[i]), RelKey(rel, s[i + 1]))

-----------------------------------------------------------------------------
(* Joins *)

\* join keys match when equal and not null (join_nulls = False)
KeyMatch(a, b) == a = b /\ Null \notin Range(a)

\* left.join(right, how="left"): every left row, once per matching right
\* row, or once with a null right side; left order is kept
LeftJoin(left, right, lk, rk, nullR) ==
    Concat(Map(left, LAMBDA l :
        LET m == SelectSeq(right, LAMBDA r :
                     KeyMatch(RelKey(lk, l), RelKey(rk, r)))
        IN  IF m = <<>> THEN << <<l, nullR>> >>
            ELSE Map(m, LAMBDA r : <<l, r>>)))

\* a right join (a fault): the left rows that match no right row are dropped
FullJoin_Right(left, right, rel, nullL, nullR) ==
    Map(LeftJoin(right, left, rel, rel, nullL), LAMBDA p : <<p[2], p[1]>>)

\* left.join(right, how="full"): the left join, then the right rows that
\* matched no left row, with a null left side.  The key columns of the two
\* sides stay apart (name and name_new), so the left key of such a row is
\* null.  The rows come in the order of the hash join; no caller relies on
\* it but _update_location, which returns the join unsorted.
FullJoin(left, right, rel, nullL, nullR) ==
    LeftJoin(left, right, rel, rel, nullR)
    \o LET un == SelectSeq(right, LAMBDA r :
                    \A i \in 1..Len(left) :
                        ~KeyMatch(RelKey(rel, left[i]), RelKey(rel, r)))
       IN  Map(un, LAMBDA r : <<nullL, r>>)

-----------------------------------------------------------------------------
(* Null rows: the side of a join that has no match *)

NullLocation == [name |-> Null, localtime_epoch |-> Null]
NullCurrent  == [name |-> Null, created_date_local |-> Null,
                 last_updated |-> Null, temp_c |-> Null]
NullForecast == [name |-> Null, created_date_local |-> Null, date |-> Null,
                 avgtemp_c |-> Null, maxtemp_c |-> Null, mintemp_c |-> Null]
NullMerged   == [name |-> Null, created_date_local |-> Null,
                 forecast_date |-> Null, current_temp_last_updated |-> Null,
                 current_temp_c |-> Null, forecast_avgtemp_c |-> Null,
                 forecast_maxtemp_c |-> Null, forecast_mintemp_c |-> Null,
                 day_diff |-> Null, forecast_current_temp_diff |-> Null]
NullStats    == [name |-> Null, current_temp_c |-> Null, min_forecast |-> Null,
                 max_forecast |-> Null, mean_forecast |-> Null,
                 highest_temp_date |-> Null, min_temp |-> Null,
                 max_temp |-> Null]

-----------------------------------------------------------------------------
(* Input: validated records (InputData) *)

Names == {1, 2}

\* one ForcastDay: its date and the day's avg / max / min temperature
ForcastDay(d, avg) ==
    [date |-> d, avgtemp_c |-> avg, maxtemp_c |-> avg + 2, mintemp_c |-> avg - 1]

\* the forecast of a snapshot whose current conditions were last updated on
\* day lu: two days ahead when that is the day of the snapshot, else one,
\* revised
Forecast(lu) ==
    IF lu = 1 THEN <<ForcastDay(1, 11), ForcastDay(2, 15)>>
    ELSE <<ForcastDay(1, 13)>>

\* the records a batch is made of: a snapshot of location n taken on day 1 at
\* tick t, its current conditions last updated on day lu (the day of the
\* snapshot or another day)
InputData ==
    { [name |-> n, localtime |-> Dt(1, t), localtime_epoch |-> Dt(1, t),
       last_updated |-> Dt(lu, 0), temp_c |-> 15 + lu + 2 * t,
       forecastday |-> Forecast(lu)] :
        n \in Names, t \in {0, 1}, lu \in {1, 2} }

\* the batches of k records
Batches(k) == [1..k -> InputData]

-----------------------------------------------------------------------------
(* Snapshot flattening *)

LocationRow(rec) ==
    [name |-> rec.name, localtime_epoch |-> rec.localtime_epoch]

CurrentRow(rec) ==
    [name |-> rec.name, created_date_local |-> rec.localtime,
     last_updated |-> rec.last_updated, temp_c |-> rec.temp_c]

ForecastRows(rec) ==
    Map(rec.forecastday, LAMBDA fc_day :
        [name |-> rec.name, created_date_local |-> rec.localtime,
         date |-> fc_day.date, avgtemp_c |-> fc_day.avgtemp_c,
         maxtemp_c |-> fc_day.maxtemp_c, mintemp_c |-> fc_day.mintemp_c])

\* _preprocessing_and_validation: <<location_df, current_temp_df, forecast_data_df>>
preprocessing_and_validation(data) ==
    <<Map(data, LocationRow), Map(data, CurrentRow),
      Concat(Map(data, ForecastRows))>>

-----------------------------------------------------------------------------
(* Derivation of merged and stats *)

\* the difference taken the other way round (a fault)
DayDiff_Swapped(date, created_date_local) ==
    LET ms == DateSub(created_date_local, date)
    IN  IF ms = Null THEN Null ELSE ms \div MS_PER_DAY

\* ((date - created_date_local) / MS_PER_DAY).cast(Int32)
DayDiff(date, created_date_local) ==
    LET ms == DateSub(date, created_date_local)
    IN  IF ms = Null THEN Null ELSE ms \div MS_PER_DAY

\* when(day_diff == 0).then(temp_c - avgtemp_c).otherwise(None).round(2)
TempDiff(day_diff, temp_c, avgtemp_c) ==
    IF day_diff # Null /\ day_diff = 0 THEN Minus(temp_c, avgtemp_c) ELSE Null

\* the row of merged_df for a forecast row f joined to a current row c
MergedRow(f, c) ==
    LET dd == DayDiff(f.date, f.created_date_local)
    IN  [name |-> f.name,
         created_date_local |-> f.created_date_local,
         forecast_date |-> f.date,
         current_temp_last_updated |-> c.last_updated,
         current_temp_c |-> c.temp_c,
         forecast_avgtemp_c |-> f.avgtemp_c,
         forecast_maxtemp_c |-> f.maxtemp_c,
         forecast_mintemp_c |-> f.mintemp_c,
         day_diff |-> dd,
         forecast_current_temp_diff |-> TempDiff(dd, c.temp_c, f.avgtemp_c)]

\* the merged relation of _stats_cal: forecast left-joined to current on the
\* location and on date(created_date_local) = date(last_updated)
MergedOf(current_temp_df, forecast_df) ==
    LET fdf == Map(forecast_df, LAMBDA f :
                   [f EXCEPT !.created_date_local = DtDate(@)])
        joined == LeftJoin(fdf, current_temp_df, "forecast_df", "current_df",
                           NullCurrent)
    IN  Map(joined, LAMBDA p : MergedRow(p[1], p[2]))

\* the aggregation of the rows g (one group, in row order) of merged
StatsRow(g) ==
    LET cur  == g[1].current_temp_c
        minf == SetMin({g[i].forecast_mintemp_c : i \in 1..Len(g)})
        maxf == SetMax({g[i].forecast_maxtemp_c : i \in 1..Len(g)})
        top  == SelectSeq(g, LAMBDA r : r.forecast_maxtemp_c = maxf)
    IN  [name |-> g[1].name,
         current_temp_c |-> cur,
         min_forecast |-> minf,
         max_forecast |-> maxf,
         mean_forecast |-> MeanRound2(Map(g, LAMBDA r : r.forecast_avgtemp_c)),
         highest_temp_date |-> IF cur # Null /\ cur >= maxf
                               THEN g[1].created_date_local
                               ELSE top[1].forecast_date,
         min_temp |-> MinHorizontal(minf, cur),
         max_temp |-> MaxHorizontal(maxf, cur)]

\* the orders in which group_by may return the groups of merged_df
GroupOrders(merged_df) ==
    LET ks == {merged_df[i].name : i \in 1..Len(merged_df)}
    IN  { o \in [1..Cardinality(ks) -> ks] : Range(o) = ks }

\* the stats relation of _stats_cal, its groups in the order o
StatsOf(merged_df, o) ==
    Map(o, LAMBDA k : StatsRow(SelectSeq(merged_df, LAMBDA r : r.name = k)))

-----------------------------------------------------------------------------
(* Persistence: the CSV files under output/ *)

\* A file is [exists, rows]; a row of a file maps each column to its text, a
\* tuple: <<>> the empty field of a null, <<v>> a number or a name, <<d>> a
\* date, <<d, t>> a datetime.
NoFile == [exists |-> FALSE, rows |-> <<>>]

CsvNum(v)      == IF v = Null THEN <<>> ELSE <<v>>
CsvDate(v)     == IF v = Null THEN <<>> ELSE <<v>>
CsvDatetime(v) == IF v = Null THEN <<>> ELSE <<v \div TicksPerDay, v % TicksPerDay>>

\* read_csv type inference of a numeric or name column
ParseNum(c)      == IF c = <<>> THEN Null ELSE c[1]
\* pl.col(..).str.to_date()
StrToDate(c)     == IF c = <<>> THEN Null ELSE c[1]
\* pl.col(..).str.to_datetime()
StrToDatetime(c) == IF c = <<>> THEN Null ELSE Dt(c[1], c[2])

\* DataFrame.write_csv, by relation
WriteLocation(df) ==
    [exists |-> TRUE, rows |-> Map(df, LAMBDA r :
        [name |-> CsvNum(r.name),
         localtime_epoch |-> CsvNum(r.localtime_epoch)])]
WriteCurrent(df) ==
    [exists |-> TRUE, rows |-> Map(df, LAMBDA r :
        [name |-> CsvNum(r.name),
         created_date_local |-> CsvDatetime(r.created_date_local),
         last_updated |-> CsvDatetime(r.last_updated),
         temp_c |-> CsvNum(r.temp_c)])]
WriteForecast(df) ==
    [exists |-> TRUE, rows |-> Map(df, LAMBDA r :
        [name |-> CsvNum(r.name),
         created_date_local |-> CsvDatetime(r.created_date_local),
         date |-> CsvDate(r.date),
         avgtemp_c |-> CsvNum(r.avgtemp_c),
         maxtemp_c |-> CsvNum(r.maxtemp_c),
         mintemp_c |-> CsvNum(r.mintemp_c)])]
WriteMerged(df) ==
    [exists |-> TRUE, rows |-> Map(df, LAMBDA r :
        [name |-> CsvNum(r.name),
         created_date_local |-> CsvDate(r.created_date_local),
         forecast_date |-> CsvDate(r.forecast_date),
         current_temp_last_updated |-> CsvDatetime(r.current_temp_last_updated),
         current_temp_c |-> CsvNum(r.current_temp_c),
         forecast_avgtemp_c |-> CsvNum(r.forecast_avgtemp_c),
         forecast_maxtemp_c |-> CsvNum(r.forecast_maxtemp_c),
         forecast_mintemp_c |-> CsvNum(r.forecast_mintemp_c),
         day_diff |-> CsvNum(r.day_diff),
         forecast_current_temp_diff |-> CsvNum(r.forecast_current_temp_diff)])]
WriteStats(df) ==
    [exists |-> TRUE, rows |-> Map(df, LAMBDA r :
        [name |-> CsvNum(r.name),
         current_temp_c |-> CsvNum(r.current_temp_c),
         min_forecast |-> CsvNum(r.min_forecast),
         max_forecast |-> CsvNum(r.max_forecast),
         mean_forecast |-> CsvNum(r.mean_forecast),
         highest_temp_date |-> CsvDate(r.highest_temp_date),
         min_temp |-> CsvNum(r.min_temp),
         max_temp |-> CsvNum(r.max_temp)])]

\* _read_prev_data followed by the casts each _update_... applies to existing_df
ReadLocation(f) ==
    Map(f.rows, LAMBDA c :
        [name |-> ParseNum(c.name),
         localtime_epoch |-> ParseNum(c.localtime_epoch)])
ReadCurrent(f) ==
    Map(f.rows, LAMBDA c :
        [name |-> ParseNum(c.name),
         created_date_local |-> StrToDatetime(c.created_date_local),
         last_updated |-> StrToDatetime(c.last_updated),
         temp_c |-> ParseNum(c.temp_c)])
ReadForecast(f) ==
    Map(f.rows, LAMBDA c :
        [name |-> ParseNum(c.name),
         created_date_local |-> StrToDatetime(c.created_date_local),
         date |-> StrToDate(c.date),
         avgtemp_c |-> ParseNum(c.avgtemp_c),
         maxtemp_c |-> ParseNum(c.maxtemp_c),
         mintemp_c |-> ParseNum(c.mintemp_c)])
ReadMerged(f) ==
    Map(f.rows, LAMBDA c :
        [name |-> ParseNum(c.name),
         created_date_local |-> StrToDate(c.created_date_local),
         forecast_date |-> StrToDate(c.forecast_date),
         current_temp_last_updated |-> StrToDatetime(c.current_temp_last_updated),
         current_temp_c |-> ParseNum(c.current_temp_c),
         forecast_avgtemp_c |-> ParseNum(c.forecast_avgtemp_c),
         forecast_maxtemp_c |-> ParseNum(c.forecast_maxtemp_c),
         forecast_mintemp_c |-> ParseNum(c.forecast_mintemp_c),
         day_diff |-> ParseNum(c.day_diff),
         forecast_current_temp_diff |-> ParseNum(c.forecast_current_temp_diff)])
ReadStats(f) ==
    Map(f.rows, LAMBDA c :
        [name |-> ParseNum(c.name),
         current_temp_c |-> ParseNum(c.current_temp_c),
         min_forecast |-> ParseNum(c.min_forecast),
         max_forecast |-> ParseNum(c.max_forecast),
         mean_forecast |-> ParseNum(c.mean_forecast),
         highest_temp_date |-> StrToDate(c.highest_temp_date),
         min_temp |-> ParseNum(c.min_temp),
         max_temp |-> ParseNum(c.max_temp)])

-----------------------------------------------------------------------------
(* Reconciliation: existing_df is the relation read from the file *)

\* the coalesce with its arguments swapped (a fault): the existing value wins
CoalesceRow_ExistingWins(pair) ==
    [c \in DOMAIN pair[1] |-> Coalesce(pair[1][c], pair[2][c])]

\* the coalesce of every update column of a joined pair <<existing, new>>
CoalesceRow(pair) ==
    [c \in DOMAIN pair[1] |-> Coalesce(pair[2][c], pair[1][c])]

\* _update_location with a prior file: full join and coalesce, no sort
JoinLocation(existing_df, new_location_df) ==
    Map(FullJoin(existing_df, new_location_df, "location",
                 NullLocation, NullLocation), CoalesceRow)

JoinCurrent(existing_df, new_current_df) ==
    Sort(Map(FullJoin(existing_df, new_current_df, "current_temp",
                      NullCurrent, NullCurrent), CoalesceRow), "current_temp")

JoinForecast(existing_df, new_forecast_df) ==
    Sort(Map(FullJoin(existing_df, new_forecast_df, "forecast_temp",
                      NullForecast, NullForecast), CoalesceRow), "forecast_temp")

\* the recalculation without the day_diff = 0 condition (a fault)
Recalculate_AnyDay(r) ==
    [r EXCEPT !.day_diff = DayDiff(r.forecast_date, r.created_date_local),
              !.forecast_current_temp_diff =
                  Minus(r.current_temp_c, r.forecast_avgtemp_c)]

\* day_diff alone recalculated: the coalesced difference is kept (a fault)
Recalculate_Copied(r) ==
    [r EXCEPT !.day_diff = DayDiff(r.forecast_date, r.created_date_local)]

\* the recalculation of day_diff and forecast_current_temp_diff of a merged row
Recalculate(r) ==
    LET dd == DayDiff(r.forecast_date, r.created_date_local)
    IN  [r EXCEPT !.day_diff = dd,
                  !.forecast_current_temp_diff =
                      TempDiff(dd, r.current_temp_c, r.forecast_avgtemp_c)]

JoinMerged(existing_df, new_merged_df) ==
    Map(Sort(Map(FullJoin(existing_df, new_merged_df, "merged",
                          NullMerged, NullMerged), CoalesceRow), "merged"),
        Recalculate)

\* the row _update_stats selects of a joined pair: the key columns of the
\* existing side as they are, the coalesce of the other columns
StatsSelect(pair) ==
    [c \in DOMAIN pair[1] |->
        IF c = "name" THEN pair[1][c] ELSE Coalesce(pair[2][c], pair[1][c])]

JoinStats(existing_df, new_stats_df) ==
    Sort(Map(FullJoin(existing_df, new_stats_df, "stats",
                      NullStats, NullStats), StatsSelect), "stats")

update_location(f, new_location_df) ==
    IF ~f.exists THEN new_location_df
    ELSE JoinLocation(ReadLocation(f), new_location_df)

\* no early return when there is no prior file (a fault)
update_current_temp_NoEarlyReturn(f, new_current_df) ==
    JoinCurrent(ReadCurrent(f), new_current_df)

update_current_temp(f, new_current_df) ==
    IF ~f.exists THEN new_current_df
    ELSE JoinCurrent(ReadCurrent(f), new_current_df)

update_forecast(f, new_forecast_df) ==
    IF ~f.exists THEN new_forecast_df
    ELSE JoinForecast(ReadForecast(f), new_forecast_df)

update_merged(f, new_merged_df) ==
    IF ~f.exists THEN new_merged_df
    ELSE JoinMerged(ReadMerged(f), new_merged_df)

update_stats(f, new_stats_df) ==
    IF ~f.exists THEN new_stats_df
    ELSE JoinStats(ReadStats(f), new_stats_df)

-----------------------------------------------------------------------------
(* The pipeline, a whole run at a time *)

Relations == {"location", "current_temp", "forecast_temp", "merged", "stats"}

NoFrames == [location |-> <<>>, current_temp |-> <<>>, forecast_temp |-> <<>>,
             merged |-> <<>>, stats |-> <<>>]

\* the processes that may run the pipeline on the same output directory
Proc == {1, 2}

\* a process that has not called run
NoRun ==
    [pc |-> "idle", id |-> 0, data |-> <<>>, frames |-> NoFrames,
     res |-> NoFrames, base |-> [r \in Relations |-> NoFile],
     after |-> [r \in Relations |-> 0], n |-> 0, w |-> 0, fault |-> "none",
     start |-> [r \in Relations |-> NoFile]]

Init ==
    /\ files = [r \in Relations |-> NoFile]
    /\ prev = [r \in Relations |-> NoFile]
    /\ batch = <<>>
    /\ new = NoFrames
    /\ out = NoFrames
    /\ pc = "idle"
    /\ seen = 0
    /\ runs = [p \in Proc |-> NoRun]
    /\ unreadable = {}
    /\ writer = [r \in Relations |-> 0]

\* the five reconciliations of run, each against its own file
Reconcile(f, dfs) ==
    [location |-> update_location(f.location, dfs.location),
     current_temp |-> update_current_temp(f.current_temp, dfs.current_temp),
     forecast_temp |-> update_forecast(f.forecast_temp, dfs.forecast_temp),
     merged |-> update_merged(f.merged, dfs.merged),
     stats |-> update_stats(f.stats, dfs.stats)]

\* run, steps 1 to 3: the batch `data` is read, validated and flattened, merged
\* and stats are derived, and each relation is reconciled with its file
Cook(data) ==
    /\ pc = "idle"
    /\ LET dfs == preprocessing_and_validation(data)
       IN  \E o \in GroupOrders(MergedOf(dfs[2], dfs[3])) :
              LET merged_df == MergedOf(dfs[2], dfs[3])
                  frames == [location |-> dfs[1], current_temp |-> dfs[2],
                             forecast_temp |-> dfs[3], merged |-> merged_df,
                             stats |-> StatsOf(merged_df, o)]
              IN  /\ new' = frames
                  /\ out' = Reconcile(files, frames)
    /\ batch' = data
    /\ seen' = seen + Len(data)
    /\ pc' = "cooked"
    /\ UNCHANGED <<files, prev, runs, unreadable, writer>>

\* run, step 4: _save_files writes the five relations
SaveFiles ==
    /\ pc = "cooked"
    /\ prev' = files
    /\ files' = [location |-> WriteLocation(out.location),
                 current_temp |-> WriteCurrent(out.current_temp),
                 forecast_temp |-> WriteForecast(out.forecast_temp),
                 merged |-> WriteMerged(out.merged),
                 stats |-> WriteStats(out.stats)]
    /\ pc' = "idle"
    /\ UNCHANGED <<batch, new, out, seen, runs, unreadable, writer>>

\* a run of the pipeline over any batch the record budget allows
Run == \E k \in 1..(MaxRecords - seen) : \E data \in Batches(k) : Cook(data)

Next == Run \/ SaveFiles

Spec == Init /\ [][Next]_vars

-----------------------------------------------------------------------------
(* Vocabulary of the properties *)

\* the relation a file holds, as the reconciliation reads it
ReadFile(rel, f) ==
    CASE rel = "location"      -> ReadLocation(f)
      [] rel = "current_temp"  -> ReadCurrent(f)
      [] rel = "forecast_temp" -> ReadForecast(f)
      [] rel = "merged"        -> ReadMerged(f)
      [] rel = "stats"         -> ReadStats(f)

WriteFile(rel, df) ==
    CASE rel = "location"      -> WriteLocation(df)
      [] rel = "current_temp"  -> WriteCurrent(df)
      [] rel = "forecast_temp" -> WriteForecast(df)
      [] rel = "merged"        -> WriteMerged(df)
      [] rel = "stats"         -> WriteStats(df)

Keys(rel, rows) == {RelKey(rel, rows[i]) : i \in 1..Len(rows)}

\* a business key: no column of it is null
IsKey(k) == Null \notin Range(k)

WithKey(rel, rows, k) == SelectSeq(rows, LAMBDA x : RelKey(rel, x) = k)

Count(rows, x) == Cardinality({i \in 1..Len(rows) : rows[i] = x})

\* the same rows with the same values, whatever their order
SameRows(a, b) ==
    /\ Len(a) = Len(b)
    /\ \A i \in 1..Len(a) : Count(a, a[i]) = Count(b, a[i])

\* a reconciliation against a prior relation has just been computed
Reconciled(rel) == pc = "cooked" /\ files[rel].exists

-----------------------------------------------------------------------------
(* C1 *)

KeysPreserved(rel) ==
    LET E == ReadFile(rel, files[rel])
        N == new[rel]
        O == out[rel]
    IN  /\ \A k \in Keys(rel, E) \cup Keys(rel, N) : Len(WithKey(rel, O, k)) = 1
        /\ Keys(rel, O) \subseteq Keys(rel, E) \cup Keys(rel, N)

\* C1: whenever a prior relation exists, the result of each of the five
\* reconciliations holds exactly one row for every business key of the
\* existing or of the incoming relation, and no row of any other key.
C1_KeyPreservation ==
    \A rel \in Relations : Reconciled(rel) => KeysPreserved(rel)

-----------------------------------------------------------------------------
(* C2 *)

\* every row of the result whose key is in both relations is, in the columns
\* other than `exempt`, the coalesce of an incoming and an existing row of
\* that key
IncomingWins(rel, exempt) ==
    LET E == ReadFile(rel, files[rel])
        N == new[rel]
        O == out[rel]
    IN  \A i \in 1..Len(O) :
            LET k == RelKey(rel, O[i])
            IN  (IsKey(k) /\ k \in Keys(rel, E) /\ k \in Keys(rel, N)) =>
                    \E e \in Range(WithKey(rel, E, k)) :
                    \E n \in Range(WithKey(rel, N, k)) :
                        \A c \in (DOMAIN O[i]) \ exempt :
                            O[i][c] = IF n[c] # Null THEN n[c] ELSE e[c]

\* C2 as stated: for a key in both relations, every update column of the
\* output row, day_diff and forecast_current_temp_diff of merged included, is
\* the incoming value when that is non-null and the existing value otherwise.
C2_IncomingWinsAll ==
    \A rel \in Relations : Reconciled(rel) => IncomingWins(rel, {})

\* C2 as amended: the same, except that forecast_current_temp_diff of merged
\* is not coalesced but recalculated from the resolved current_temp_c and
\* forecast_avgtemp_c of the output row.
C2_IncomingWins ==
    /\ \A rel \in Relations \ {"merged"} :
           Reconciled(rel) => IncomingWins(rel, {})
    /\ Reconciled("merged") =>
           /\ IncomingWins("merged", {"forecast_current_temp_diff"})
           /\ \A i \in 1..Len(out.merged) :
                  LET o == out.merged[i]
                  IN  o.forecast_current_temp_diff =
                          IF o.day_diff = 0 /\ o.current_temp_c # Null
                                            /\ o.forecast_avgtemp_c # Null
                          THEN o.current_temp_c - o.forecast_avgtemp_c
                          ELSE Null

\* a merged key is reconciled whose incoming row has no current temperature
\* and another forecast than the existing row, which has a current temperature
C2_Witness ==
    /\ Reconciled("merged")
    /\ \E e \in Range(ReadMerged(files.merged)) : \E n \in Range(new.merged) :
           /\ MergedKey(e) = MergedKey(n)
           /\ n.current_temp_c = Null /\ e.current_temp_c # Null
           /\ n.forecast_avgtemp_c # e.forecast_avgtemp_c
           /\ e.day_diff = 0
    /\ \E rel \in Relations \ {"merged"} :
           \E e \in Range(ReadFile(rel, files[rel])) : \E n \in Range(new[rel]) :
               RelKey(rel, e) = RelKey(rel, n) /\ e # n

-----------------------------------------------------------------------------
(* C3 *)

\* the rows of every business key of the existing relation that the incoming
\* relation lacks are in the result as they are in the existing relation
Survives(rel) ==
    LET E == ReadFile(rel, files[rel])
        N == new[rel]
        O == out[rel]
    IN  \A k \in Keys(rel, E) \ Keys(rel, N) :
            IsKey(k) => SameRows(WithKey(rel, O, k), WithKey(rel, E, k))

\* C3: for a business key (no column of it null) present only in the existing
\* relation, the output row equals the existing row in every column, in each
\* of the five reconciliations (in merged: after the recalculation of the
\* derived columns).
C3_HistoricalKeySurvival ==
    \A rel \in Relations : Reconciled(rel) => Survives(rel)

\* every relation is reconciled with a batch that lacks one of its keys, and
\* the surviving merged row has a forecast_current_temp_diff
C3_Witness ==
    /\ \A rel \in Relations :
           /\ Reconciled(rel)
           /\ \E k \in Keys(rel, ReadFile(rel, files[rel])) :
                  IsKey(k) /\ k \notin Keys(rel, new[rel])
    /\ \E e \in Range(ReadMerged(files.merged)) :
           /\ MergedKey(e) \notin Keys("merged", new.merged)
           /\ e.forecast_current_temp_diff # Null

-----------------------------------------------------------------------------
(* C4 *)

UpdateRel(rel, f, df) ==
    CASE rel = "location"      -> update_location(f, df)
      [] rel = "current_temp"  -> update_current_temp(f, df)
      [] rel = "forecast_temp" -> update_forecast(f, df)
      [] rel = "merged"        -> update_merged(f, df)
      [] rel = "stats"         -> update_stats(f, df)

\* C4: reconciling a batch against the result of reconciling the same batch
\* gives that result again (same rows, same values), for each of the five
\* relations: a second run on the same input leaves the relations as they
\* were after the first.
C4_Idempotence ==
    pc = "cooked" =>
        \A rel \in Relations :
            SameRows(UpdateRel(rel, WriteFile(rel, out[rel]), new[rel]),
                     out[rel])

-----------------------------------------------------------------------------
(* C5 *)

\* C5 as stated: in every row of the merged relation that _update_merged
\* returns, day_diff is forecast_date - created_date_local in whole days and
\* forecast_current_temp_diff is non-null if and only if day_diff = 0.
C5_DerivedIffDayDiff ==
    pc = "cooked" =>
        \A i \in 1..Len(out.merged) :
            LET o == out.merged[i]
            IN  /\ o.day_diff = o.forecast_date - o.created_date_local
                /\ (o.forecast_current_temp_diff # Null) <=> (o.day_diff = 0)

\* C5 as amended: day_diff is forecast_date - created_date_local in whole
\* days, and forecast_current_temp_diff is non-null if and only if
\* day_diff = 0 and the row has a current_temp_c (a forecast row that matched
\* no current row has none).
C5_DerivedColumns ==
    pc = "cooked" =>
        \A i \in 1..Len(out.merged) :
            LET o == out.merged[i]
            IN  /\ o.day_diff = o.forecast_date - o.created_date_local
                /\ (o.forecast_current_temp_diff # Null)
                       <=> (o.day_diff = 0 /\ o.current_temp_c # Null)

\* a reconciled merged relation with a same-day row with and one without a
\* current temperature, and a row of a later forecast day with one
C5_Witness ==
    /\ Reconciled("merged")
    /\ \E a, b, c \in Range(out.merged) :
           /\ a.day_diff = 0 /\ a.current_temp_c # Null
           /\ b.day_diff = 0 /\ b.current_temp_c = Null
           /\ c.day_diff = 1 /\ c.current_temp_c # Null

-----------------------------------------------------------------------------
(* C6 *)

\* C6: every row of the persisted stats relation has
\* min_temp <= min_forecast and max_temp >= max_forecast.
C6_StatsBounds ==
    pc = "idle" =>
        \A r \in Range(ReadStats(files.stats)) :
            /\ Null \notin {r.min_temp, r.min_forecast, r.max_temp, r.max_forecast}
            /\ r.min_temp <= r.min_forecast
            /\ r.max_temp >= r.max_forecast

\* a persisted stats relation, reconciled with a prior one, with a row whose
\* forecast columns came from the batch and whose current temperature came
\* from the prior relation, and a row whose max_temp is above max_forecast
C6_Witness ==
    /\ pc = "idle" /\ prev.stats.exists
    /\ \E e \in Range(ReadStats(prev.stats)) : \E n \in Range(new.stats) :
       \E r \in Range(ReadStats(files.stats)) :
           /\ e.name = n.name /\ r.name = n.name
           /\ n.current_temp_c = Null /\ r.current_temp_c = e.current_temp_c
           /\ r.current_temp_c # Null
           /\ r.min_forecast = n.min_forecast /\ r.min_forecast # e.min_forecast
    /\ \E r \in Range(ReadStats(files.stats)) : r.max_temp > r.max_forecast

-----------------------------------------------------------------------------
(* C7 *)

\* C7: when a relation has no prior file, its reconciliation returns the
\* incoming relation unchanged, row for row and in the incoming order.
C7_FirstRunPureInsert ==
    pc = "cooked" =>
        \A rel \in Relations : ~files[rel].exists => out[rel] = new[rel]

\* a first run over a batch of two locations that is not in key order
C7_Witness ==
    /\ pc = "cooked"
    /\ \A rel \in Relations : ~files[rel].exists
    /\ Len(batch) = 2 /\ batch[1].name > batch[2].name

-----------------------------------------------------------------------------
(* C8 *)

\* C8: every business key persisted before a run is still persisted after
\* it, and no relation has fewer rows after a run than before.
C8_RowsNeverDeleted ==
    \A rel \in Relations :
        prev[rel].exists =>
            /\ Keys(rel, ReadFile(rel, prev[rel]))
                   \subseteq Keys(rel, ReadFile(rel, files[rel]))
            /\ Len(prev[rel].rows) <= Len(files[rel].rows)

\* a run has saved, over prior files, relations that kept a key the batch
\* lacked and gained a key
C8_Witness ==
    /\ pc = "idle"
    /\ \A rel \in Relations :
           /\ prev[rel].exists
           /\ Len(prev[rel].rows) < Len(files[rel].rows)
           /\ \E k \in Keys(rel, ReadFile(rel, prev[rel])) :
                  k \notin Keys(rel, new[rel])

-----------------------------------------------------------------------------
(* C9 *)

\* C9: whenever a prior relation exists, the result of each of the five
\* reconciliations is sorted ascending by the relation's business key.
C9_SortedByKey ==
    \A rel \in Relations :
        Reconciled(rel) => IsSorted(out[rel], rel)

-----------------------------------------------------------------------------
(* C10 *)

\* C10: in each of the five persisted relations no two rows share a business
\* key and no business-key column is null.
C10_KeysUnique ==
    \A rel \in Relations :
        LET rows == ReadFile(rel, files[rel])
        IN  \A i, j \in 1..Len(rows) :
                /\ IsKey(RelKey(rel, rows[i]))
                /\ i # j => RelKey(rel, rows[i]) # RelKey(rel, rows[j])

-----------------------------------------------------------------------------
(* The pipeline, a statement of run at a time: the reads and the writes of    *)
(* the five files are separate steps, a step may raise, and two processes may *)
(* run on the same output directory.  runs[p] is the state of the call of run *)
(* in process p: its position pc, the number n of reconciliations that have   *)
(* returned and w of files written, its batch, its frames, the results res of *)
(* its reconciliations, the prior state base[rel] it read of each relation,   *)
(* the run after[rel] that had last written the relation when it was read,    *)
(* the files as they were at the start of the run, and the fault that ended   *)
(* it.  writer[rel] is the run that wrote the file of rel last.               *)

\* the order in which run reconciles the relations and _save_files writes them
Order == <<"location", "current_temp", "forecast_temp", "merged", "stats">>

\* the fields InputData requires of a record
RequiredFields ==
    {"name", "localtime", "localtime_epoch", "last_updated", "temp_c",
     "forecastday"}

\* a record that lacks required fields
Malformed == [name |-> 1]

\* _validate_input_data: InputData(**data) raises unless the record has the
\* required fields
validate_input_data(rec) == DOMAIN rec = RequiredFields

\* the records of the batches of a run taken step by step: the snapshots of
\* the first tick, of location 1 with either forecast and of location 2
StepInput ==
    { d \in InputData :
        d.localtime = Dt(1, 0) /\ (d.name = 1 \/ d.last_updated = Dt(1, 0)) }

\* the batches of such a run: one record
StepBatches == { <<d>> : d \in StepInput }

\* the batches an input file may hold: a record, well-formed or not, or a
\* well-formed record followed by a malformed one
RawBatches ==
    { <<d>> : d \in StepInput \cup {Malformed} }
        \cup { <<d, Malformed>> : d \in StepInput }

\* an exception leaves run: nothing in run catches it
Raise(p, kind) ==
    runs' = [runs EXCEPT ![p].pc = "failed", ![p].fault = kind]

\* _read_json raises: the input file is missing or is not JSON
ReadJsonFault(p) ==
    /\ runs[p].pc \in {"idle", "done", "failed"}
    /\ runs' = [runs EXCEPT ![p] = [NoRun EXCEPT !.pc = "failed",
                                                 !.fault = "input",
                                                 !.start = files]]
    /\ UNCHANGED <<files, prev, batch, new, out, pc, seen, unreadable, writer>>

\* run, steps 1 and 2: _read_json, then _preprocessing_and_validation, which
\* validates record after record and raises at the first malformed one
Begin(p, data) ==
    /\ runs[p].pc \in {"idle", "done", "failed"}
    /\ seen + Len(data) <= MaxRecords
    /\ seen' = seen + Len(data)
    /\ LET r0 == [NoRun EXCEPT !.id = seen + Len(data), !.data = data,
                               !.start = files]
       IN  IF \E i \in 1..Len(data) : ~validate_input_data(data[i])
           THEN runs' = [runs EXCEPT ![p] = [r0 EXCEPT !.pc = "failed",
                                                       !.fault = "validation"]]
           ELSE LET dfs == preprocessing_and_validation(data)
                IN  runs' = [runs EXCEPT ![p] =
                        [r0 EXCEPT !.pc = "validated",
                                   !.frames = [NoFrames EXCEPT
                                       !.location = dfs[1],
                                       !.current_temp = dfs[2],
                                       !.forecast_temp = dfs[3]]]]
    /\ UNCHANGED <<files, prev, batch, new, out, pc, unreadable, writer>>

\* run, step 3, first statement: _stats_cal derives merged and stats
StatsCal(p) ==
    /\ runs[p].pc = "validated"
    /\ LET f == runs[p].frames
           merged_df == MergedOf(f.current_temp, f.forecast_temp)
       IN  \E o \in GroupOrders(merged_df) :
               runs' = [runs EXCEPT ![p].pc = "cooking",
                                    ![p].frames.merged = merged_df,
                                    ![p].frames.stats = StatsOf(merged_df, o)]
    /\ UNCHANGED <<files, prev, batch, new, out, pc, seen, unreadable, writer>>

\* an exception of the library inside _stats_cal
StatsCalFault(p) ==
    /\ runs[p].pc = "validated"
    /\ Raise(p, "derivation")
    /\ UNCHANGED <<files, prev, batch, new, out, pc, seen, unreadable, writer>>


\* the reconciliation writes its file as soon as it has its result (a fault)
UpdateStep_WriteThrough(p, i) ==
    /\ runs[p].pc = "cooking" /\ runs[p].n = i - 1
    /\ LET rel == Order[i]
           df == UpdateRel(rel, files[rel], runs[p].frames[rel])
       IN  /\ runs' = [runs EXCEPT ![p].res[rel] = df,
                                   ![p].base[rel] = files[rel],
                                   ![p].after[rel] = writer[rel],
                                   ![p].n = i,
                                   ![p].pc = IF i = Len(Order) THEN "saving"
                                             ELSE "cooking"]
           /\ files' = [files EXCEPT ![rel] = WriteFile(rel, df)]
    /\ UNCHANGED <<prev, batch, new, out, pc, seen, unreadable, writer>>

\* the read error surfaces only after the incoming relation has been taken as
\* the result (a fault)
UpdateStep_LateFault(p, i) ==
    /\ runs[p].pc = "cooking" /\ runs[p].n = i - 1
    /\ LET rel == Order[i]
       IN  IF files[rel].exists /\ rel \in unreadable
           THEN runs' = [runs EXCEPT ![p].res[rel] = runs[p].frames[rel],
                                     ![p].pc = "failed",
                                     ![p].fault = "persistence"]
           ELSE runs' = [runs EXCEPT
                    ![p].res[rel] = UpdateRel(rel, files[rel],
                                              runs[p].frames[rel]),
                    ![p].base[rel] = files[rel],
                    ![p].after[rel] = writer[rel],
                    ![p].n = i,
                    ![p].pc = IF i = Len(Order) THEN "saving" ELSE "cooking"]
    /\ UNCHANGED <<files, prev, batch, new, out, pc, seen, unreadable, writer>>

\* the incoming relation replaces the prior state instead of being joined to
\* it (a fault)
UpdateStep_Overwrite(p, i) ==
    /\ runs[p].pc = "cooking" /\ runs[p].n = i - 1
    /\ LET rel == Order[i]
       IN  runs' = [runs EXCEPT ![p].res[rel] = runs[p].frames[rel],
                                ![p].base[rel] = files[rel],
                                ![p].after[rel] = writer[rel],
                                ![p].n = i,
                                ![p].pc = IF i = Len(Order) THEN "saving"
                                          ELSE "cooking"]
    /\ UNCHANGED <<files, prev, batch, new, out, pc, seen, unreadable, writer>>

\* run, step 3, the i-th reconciliation: _update_... reads the file of its
\* relation (_read_prev_data raises when the file is there but cannot be read)
\* and reconciles the incoming relation with it
UpdateStep(p, i) ==
    /\ runs[p].pc = "cooking" /\ runs[p].n = i - 1
    /\ LET rel == Order[i]
       IN  IF files[rel].exists /\ rel \in unreadable
           THEN Raise(p, "persistence")
           ELSE runs' = [runs EXCEPT
                    ![p].res[rel] = UpdateRel(rel, files[rel],
                                              runs[p].frames[rel]),
                    ![p].base[rel] = files[rel],
                    ![p].after[rel] = writer[rel],
                    ![p].n = i,
                    ![p].pc = IF i = Len(Order) THEN "saving" ELSE "cooking"]
    /\ UNCHANGED <<files, prev, batch, new, out, pc, seen, unreadable, writer>>

UpdateLocation(p)    == UpdateStep(p, 1)
UpdateCurrentTemp(p) == UpdateStep(p, 2)
UpdateForecast(p)    == UpdateStep(p, 3)
UpdateMerged(p)      == UpdateStep(p, 4)
UpdateStats(p)       == UpdateStep(p, 5)

\* run, step 4: the next write_csv of _save_files; the write replaces the
\* file, readable or not
WriteCsv(p) ==
    /\ runs[p].pc = "saving"
    /\ LET rel == Order[runs[p].w + 1]
       IN  /\ files' = [files EXCEPT ![rel] = WriteFile(rel, runs[p].res[rel])]
           /\ writer' = [writer EXCEPT ![rel] = runs[p].id]
           /\ unreadable' = unreadable \ {rel}
    /\ runs' = [runs EXCEPT ![p].w = @ + 1,
                            ![p].pc = IF runs[p].w + 1 = Len(Order)
                                      THEN "done" ELSE "saving"]
    /\ UNCHANGED <<prev, batch, new, out, pc, seen>>

\* a write_csv of _save_files raises: the exception is logged and raised again
SaveFault(p) ==
    /\ runs[p].pc = "saving"
    /\ Raise(p, "save")
    /\ UNCHANGED <<files, prev, batch, new, out, pc, seen, unreadable, writer>>

\* the environment: a persisted file loses its read permission or is corrupted
Damage(rel) ==
    /\ files[rel].exists
    /\ unreadable = {}
    /\ unreadable' = {rel}
    /\ UNCHANGED <<files, prev, batch, new, out, pc, seen, runs, writer>>

\* one process, with faults
NextFaults ==
    \/ \E data \in RawBatches : Begin(1, data)
    \/ ReadJsonFault(1)
    \/ StatsCal(1)
    \/ StatsCalFault(1)
    \/ UpdateLocation(1)
    \/ UpdateCurrentTemp(1)
    \/ UpdateForecast(1)
    \/ UpdateMerged(1)
    \/ UpdateStats(1)
    \/ WriteCsv(1)
    \/ SaveFault(1)
    \/ \E rel \in Relations : Damage(rel)

SpecFaults == Init /\ [][NextFaults]_vars

\* a run that is over before any of the two processes calls run
Earlier(data) ==
    /\ \A p \in Proc : runs[p].pc = "idle"
    /\ seen + Len(data) <= MaxRecords
    /\ Cook(data)

\* the one call of run of process p, once the earlier runs are over
Start(p, data) ==
    /\ pc = "idle"
    /\ runs[p].pc = "idle"
    /\ Begin(p, data)

\* runs one at a time, then two processes that each call run once, without
\* faults
NextConcurrent ==
    \/ \E data \in StepBatches : Earlier(data)
    \/ SaveFiles
    \/ \E p \in Proc :
        \/ \E data \in StepBatches : Start(p, data)
        \/ StatsCal(p)
        \/ UpdateLocation(p)
        \/ UpdateCurrentTemp(p)
        \/ UpdateForecast(p)
        \/ UpdateMerged(p)
        \/ UpdateStats(p)
        \/ WriteCsv(p)

SpecConcurrent == Init /\ [][NextConcurrent]_vars

-----------------------------------------------------------------------------
(* C11 *)

\* C11: when the reading of the input, the validation of a record, the
\* derivation or one of the five reconciliations raises, the run ends with
\* that fault and the five files are as they were when the run started; no
\* file differs from its state at the start of a run before all five
\* reconciliations of the run have returned.
C11_NoPartialOutput ==
    \A p \in Proc :
        LET r == runs[p]
        IN  r.pc # "idle" =>
                /\ (r.pc = "failed" /\ r.fault # "save") =>
                       /\ r.fault \in {"input", "validation", "derivation",
                                       "persistence"}
                       /\ files = r.start
                /\ files # r.start => r.n = Len(Order)

\* a run over prior files fails at its last reconciliation, stats, after the
\* four reconciliations before it returned results that differ from the files
C11_Witness ==
    LET r == runs[1]
    IN  /\ r.pc = "failed" /\ r.fault = "persistence" /\ r.n = 4
        /\ \A i \in 1..4 :
               /\ files[Order[i]].exists
               /\ WriteFile(Order[i], r.res[Order[i]]) # files[Order[i]]

-----------------------------------------------------------------------------
(* C12 *)

\* C12 as stated: when a run fails because the prior state of a relation
\* cannot be read, no reconciliation of that run has been performed.
C12_AbortsBeforeAnyReconciliation ==
    \A p \in Proc :
        (runs[p].pc = "failed" /\ runs[p].fault = "persistence") =>
            /\ runs[p].n = 0
            /\ runs[p].res = NoFrames

\* C12 as amended: when a run fails because the prior state of a relation
\* cannot be read, the reconciliation of that relation and of every relation
\* after it in the order location, current_temp, forecast_temp, merged, stats
\* has not been performed and no file has been written; the reconciliations
\* of the relations before it in that order have been performed.
C12_AbortsBeforeThatReconciliation ==
    \A p \in Proc :
        LET r == runs[p]
        IN  (r.pc = "failed" /\ r.fault = "persistence") =>
                /\ r.n < Len(Order)
                /\ Order[r.n + 1] \in unreadable
                /\ files[Order[r.n + 1]].exists
                /\ \A j \in (r.n + 1)..Len(Order) : r.res[Order[j]] = <<>>
                /\ \A j \in 1..r.n :
                       /\ r.res[Order[j]] # <<>>
                       /\ Order[j] \notin unreadable \/ ~r.base[Order[j]].exists
                /\ files = r.start

\* a run fails at the reading of forecast_temp.csv, after location and
\* current_temp have been reconciled with their prior files
C12_Witness ==
    LET r == runs[1]
    IN  /\ r.pc = "failed" /\ r.fault = "persistence" /\ r.n = 2
        /\ unreadable = {"forecast_temp"}
        /\ r.base.location.exists /\ r.base.current_temp.exists
        /\ r.res.location # <<>> /\ r.res.current_temp # <<>>

-----------------------------------------------------------------------------
(* C13 *)

\* the key columns of the persisted relation
FileKeys(rel) == Keys(rel, ReadFile(rel, files[rel]))

\* C13: two processes p and q have each run once and written all their files,
\* q writing the file of rel last.  When both read the same prior state of
\* rel, neither after the other's write, the file is q's result alone: the
\* keys only p's batch had are not in it, and the rows of the prior state
\* whose keys q's batch lacked are as they were, whatever p's batch held for
\* them.  When q read rel after p's write (as in strictly sequential runs),
\* every key of p's result is in the file, and the rows whose keys q's batch
\* lacked are p's.
C13_LostUpdate ==
    \A p, q \in Proc : \A rel \in Relations :
        (p # q /\ runs[p].pc = "done" /\ runs[q].pc = "done"
               /\ writer[rel] = runs[q].id) =>
            LET P  == runs[p]
                Q  == runs[q]
                B  == ReadFile(rel, Q.base[rel])
                F  == ReadFile(rel, files[rel])
                PR == ReadFile(rel, WriteFile(rel, P.res[rel]))
            IN  /\ (P.after[rel] = 0 /\ Q.after[rel] = 0
                        /\ P.base[rel] = Q.base[rel]) =>
                       /\ files[rel] = WriteFile(rel, Q.res[rel])
                       /\ \A k \in Keys(rel, P.frames[rel]) :
                              (k \notin Keys(rel, B)
                                   /\ k \notin Keys(rel, Q.frames[rel]))
                                  => k \notin FileKeys(rel)
                       /\ Q.base[rel].exists =>
                              \A k \in Keys(rel, B) \ Keys(rel, Q.frames[rel]) :
                                  IsKey(k) => SameRows(WithKey(rel, F, k),
                                                       WithKey(rel, B, k))
                /\ Q.after[rel] = P.id =>
                       \A k \in Keys(rel, PR) :
                           IsKey(k) =>
                               /\ k \in FileKeys(rel)
                               /\ k \notin Keys(rel, Q.frames[rel]) =>
                                      SameRows(WithKey(rel, F, k),
                                               WithKey(rel, PR, k))

\* both processes have run over a prior state: they read the same location
\* file before either wrote it, and the location only the earlier writer's
\* batch had is not in the file; the later writer read the merged file after
\* the earlier one had written it, and the earlier writer's merged rows are
\* there
C13_Witness ==
    \E p, q \in Proc :
        LET P == runs[p]
            Q == runs[q]
        IN  /\ p # q /\ P.pc = "done" /\ Q.pc = "done"
            /\ writer.location = Q.id /\ writer.merged = Q.id
            /\ P.after.location = 0 /\ Q.after.location = 0
            /\ P.base.location.exists /\ P.base.location = Q.base.location
            /\ \E k \in Keys("location", P.frames.location) :
                   /\ k \notin Keys("location", ReadLocation(P.base.location))
                   /\ k \notin FileKeys("location")
            /\ Q.after.merged = P.id
            /\ \E k \in Keys("merged", P.frames.merged) :
                   /\ k \notin Keys("merged", ReadMerged(P.base.merged))
                   /\ k \notin Keys("merged", Q.frames.merged)
                   /\ k \in FileKeys("merged")

-----------------------------------------------------------------------------
(* C14 *)

\* C14: in every row _update_merged returns with day_diff = 0 and a current
\* temperature and an average forecast temperature, forecast_current_temp_diff
\* is the row's own current_temp_c minus its own forecast_avgtemp_c, also
\* when one of the two came from the incoming and the other from the existing
\* row; it is not the difference either input row carried.
C14_RecomputedFromResolved ==
    pc = "cooked" =>
        \A i \in 1..Len(out.merged) :
            LET o == out.merged[i]
            IN  (o.day_diff = 0 /\ o.current_temp_c # Null
                                /\ o.forecast_avgtemp_c # Null)
                    => o.forecast_current_temp_diff
                           = o.current_temp_c - o.forecast_avgtemp_c

\* a same-day merged row is reconciled whose current temperature came from
\* the existing row and whose forecast came from the incoming row, so that its
\* difference is the one of neither input row
C14_Witness ==
    /\ Reconciled("merged")
    /\ \E e \in Range(ReadMerged(files.merged)) : \E n \in Range(new.merged) :
       \E o \in Range(out.merged) :
           /\ MergedKey(e) = MergedKey(n) /\ MergedKey(o) = MergedKey(n)
           /\ o.day_diff = 0
           /\ n.current_temp_c = Null /\ o.current_temp_c = e.current_temp_c
           /\ o.current_temp_c # Null
           /\ o.forecast_avgtemp_c = n.forecast_avgtemp_c
           /\ n.forecast_avgtemp_c # e.forecast_avgtemp_c
           /\ o.forecast_current_temp_diff # Null
           /\ o.forecast_current_temp_diff # e.forecast_current_temp_diff
           /\ o.forecast_current_temp_diff # n.forecast_current_temp_diff

-----------------------------------------------------------------------------
(* C15 *)

\* C15: after any sequence of runs, every location of the persisted merged
\* relation has a persisted stats row, and min_forecast, max_forecast and
\* mean_forecast of that row are the minimum of forecast_mintemp_c, the
\* maximum of forecast_maxtemp_c and the mean of forecast_avgtemp_c over all
\* the persisted merged rows of the location.
C15_StatsOverHistory ==
    pc = "idle" =>
        LET M == ReadMerged(files.merged)
            S == ReadStats(files.stats)
        IN  \A k \in {M[i].name : i \in 1..Len(M)} :
                LET g == SelectSeq(M, LAMBDA r : r.name = k)
                IN  /\ \E j \in 1..Len(S) : S[j].name = k
                    /\ \A j \in 1..Len(S) :
                           S[j].name = k =>
                               /\ S[j].min_forecast = SetMin(
                                      {g[i].forecast_mintemp_c : i \in 1..Len(g)})
                               /\ S[j].max_forecast = SetMax(
                                      {g[i].forecast_maxtemp_c : i \in 1..Len(g)})
                               /\ S[j].mean_forecast = MeanRound2(
                                      [i \in 1..Len(g) |-> g[i].forecast_avgtemp_c])

-----------------------------------------------------------------------------
(* C16 *)

\* C16: in every row of the persisted stats relation, min_temp is the minimum
\* and max_temp the maximum of the row's own min_forecast / max_forecast and
\* current_temp_c, nulls ignored.
C16_StatsRowConsistent ==
    pc = "idle" =>
        \A r \in Range(ReadStats(files.stats)) :
            /\ r.min_temp =
                   IF r.current_temp_c = Null THEN r.min_forecast
                   ELSE IF r.min_forecast = Null THEN r.current_temp_c
                   ELSE IF r.current_temp_c < r.min_forecast
                        THEN r.current_temp_c ELSE r.min_forecast
            /\ r.max_temp =
                   IF r.current_temp_c = Null THEN r.max_forecast
                   ELSE IF r.max_forecast = Null THEN r.current_temp_c
                   ELSE IF r.current_temp_c > r.max_forecast
                        THEN r.current_temp_c ELSE r.max_forecast

-----------------------------------------------------------------------------
(* C17 *)

\* C17: the persisted current_temp relation holds at most one row for each
\* location and calendar date of created_date_local.
C17_OneRowPerDate ==
    LET C == ReadCurrent(files.current_temp)
    IN  \A i, j \in 1..Len(C) :
            (i # j /\ C[i].name = C[j].name)
                => DtDate(C[i].created_date_local)
                       # DtDate(C[j].created_date_local)

====
